---------------------------- MODULE Spec2Model ----------------------------
(***************************************************************************)
(* Reconciliation of scraped punch records with the document store and the *)
(* calendar, as done by src/main.py: main -> to_dataframe -> sync_entries  *)
(* (get_month_entries_db, delete_calendar_event, update_entries) ->        *)
(* process_punch_data (event_exists, add_calendar_event).                  *)
(*                                                                         *)
(* A punch row is [id, status, slot, gid]:                                 *)
(*   id     the 'Id' index label of the row / the '_id' of the document;   *)
(*   status the 'Status' column;                                           *)
(*   slot   the pair ('Start Time', 'End Time') and with it the            *)
(*          'Service Date'; slot 0 is an interval outside the target       *)
(*          month, slots 1..MaxSlot are intervals inside it.  Two distinct *)
(*          slots do not overlap;                                          *)
(*   gid    the 'google_event_id' column or field: 0 when the column or    *)
(*          the field is absent, NaN when it holds the float NaN, else the *)
(*          id of a calendar event.                                        *)
(* A calendar event is [eid, slot, pid]; pid records the punch the event   *)
(* was created for (the entry_id handed to add_calendar_event).            *)
(*                                                                         *)
(* Spec      runs of main, one after the other, with the exceptions the    *)
(*           store, the calendar and the scrape can raise;                 *)
(* NormSpec  to_dataframe on tables whose rows may fail to parse;          *)
(* RaceSpec  two runs at process_punch_data at the same time;              *)
(* HoursSpec calculate_hours on record sets;                               *)
(* SplitSpec get_biweekly_data on record sets;                             *)
(* FormatSpec format_hhmmss on durations;                                  *)
(* PipelineSpec one run of main, statement by statement.                   *)
(* In Spec the rows that get_table returns parse.                          *)
(***************************************************************************)
EXTENDS Integers, Sequences, FiniteSets, TLC

MaxId == 2
MaxSlot == 2
MaxRows == 2
MaxEid == 2

Ids == 1..MaxId
MonthSlots == 1..MaxSlot
Slots == 0..MaxSlot
InvalidStatuses == {"Open", "Rejected", "Unvalidated"}
Statuses == {"Approved"} \cup InvalidStatuses

RawRows == [id : Ids, status : Statuses, slot : Slots, gid : {0}]

SeqsUpTo(S, n) == UNION {[1..k -> S] : k \in 0..n}

VARIABLES
    store,      \* the 'Entries' collection: documents in insertion order
    cal,        \* the calendar: set of events
    nextEid,    \* next event id the calendar hands out
    pc,         \* position of main: idle, scraped, synced, done, crashed
    cur,        \* cur_df of sync_entries: the scraped rows of the target month
    old,        \* old_df as loaded by sync_entries in this run
    result,     \* the dataframe sync_entries returned in this run
    dels,       \* entry ids delete_calendar_event was called with, in order
    fired,      \* exceptions raised so far in this run
    created,    \* events created by process_punch_data in this run
    store0,     \* the collection when the run started
    cal0,       \* the calendar when the run started
    open,       \* store clients and browser sessions made and not closed in this run
    input,      \* argument of the function under study (to_dataframe, calculate_hours)
    output,     \* [called, raised, value]: what that function returned or raised
    runs,       \* position of each of the concurrent runs of process_punch_data
    overlapped, \* some run started while another one was under way
    table,      \* rows get_table returned, not yet handed to to_dataframe
    stages      \* the stages of the pipeline entered in this run, in order

\* the variables of the statement-by-statement run of main
pipe == <<table, stages>>

PipeIdle ==
    /\ table = <<>>
    /\ stages = <<>>

\* the variables of the function studies, of the concurrent runs and of the
\* statement-by-statement run
side == <<input, output, runs, overlapped, pipe>>

vars == <<store, cal, nextEid, pc, cur, old, result, dels, fired, created,
          store0, cal0, open, side>>

----------------------------------------------------------------------------
(* Dataframe helpers *)

IdsOf(df) == {df[i].id : i \in DOMAIN df}

\* df.drop(labels): removes every row whose index label is in labels
DropLabels(df, labels) == SelectSeq(df, LAMBDA r : r.id \notin labels)

\* variant of InvalidLabels that forgets the Unvalidated status
InvalidLabelsNoUnvalidated(df) ==
    {df[i].id : i \in {j \in DOMAIN df : df[j].status \in {"Open", "Rejected"}}}

\* index labels of the rows whose Status is Open, Rejected or Unvalidated
InvalidLabels(df) == {df[i].id : i \in {j \in DOMAIN df : df[j].status \in InvalidStatuses}}

\* variant of DropInvalid that drops no row
DropInvalidKeepsAll(df) == df

\* df.drop(df[(Status == 'Open') | (Status == 'Rejected') | (Status == 'Unvalidated')].index)
DropInvalid(df) == DropLabels(df, InvalidLabels(df))

\* df[~df.index.duplicated(keep='first')]
KeepFirst(df) ==
    LET F[i \in 0..Len(df)] ==
            IF i = 0 THEN <<>>
            ELSE IF \E j \in 1..(i - 1) : df[j].id = df[i].id
                 THEN F[i - 1]
                 ELSE Append(F[i - 1], df[i])
    IN F[Len(df)]

\* variant of Concat with the stored rows first
ConcatOldFirst(cur_df, old_df) == old_df \o cur_df

\* pd.concat([cur_df, old_df])
Concat(cur_df, old_df) == cur_df \o old_df

InMonth(r) == r.slot \in MonthSlots

\* rows whose Service Date lies in the target month
MonthFilter(df) == SelectSeq(df, InMonth)

\* to_dataframe: set_index('Id'), then drop the labels of the Open rows
to_dataframe(rows) ==
    DropLabels(rows, {rows[i].id : i \in {j \in DOMAIN rows : rows[j].status = "Open"}})

\* the float NaN in the google_event_id column of a row or of a document
NaN == -1

\* the frame has a google_event_id column
HasEventIdColumn(df) == \E i \in DOMAIN df : df[i].gid # 0

\* a frame with a google_event_id column holds NaN where a row has no value
FillEventId(df) ==
    [i \in DOMAIN df |-> IF df[i].gid = 0 THEN [df[i] EXCEPT !.gid = NaN] ELSE df[i]]

\* pd.concat([cur_df, old_df]) takes the union of the columns: the rows of
\* cur_df get NaN in the google_event_id column of old_df
AlignColumns(cur_df, old_df) ==
    IF HasEventIdColumn(old_df) THEN FillEventId(cur_df) ELSE cur_df

\* variant of get_month_entries_db that finds no document
get_month_entries_db_nothing(st) == <<>>

\* get_month_entries_db: documents of the target month as a dataframe;
\* pd.DataFrame(documents) has a google_event_id column when some document
\* has the field
get_month_entries_db(st) ==
    LET documents == MonthFilter(st)
    IN IF HasEventIdColumn(documents) THEN FillEventId(documents) ELSE documents

----------------------------------------------------------------------------
(* Faults: the exception, if any, that is raised in a stage of the run.    *)
(* kind names the call that raises; at is the entry id (cal_delete) or the *)
(* row number (list, insert, writeback) it raises for.                     *)

NoFault == [kind |-> "none", at |-> 0]

SyncFaults ==
    {NoFault}
    \cup [kind : {"read_conn", "read_query", "lookup_conn", "lookup_query",
                  "update_conn", "delete_many", "find_existing", "insert_many"},
          at : {0}]
    \cup [kind : {"cal_delete"}, at : Ids]

ProjFaults ==
    {NoFault} \cup [kind : {"list", "insert", "writeback"}, at : 1..MaxRows]

\* the faults raised by get_mongodb_collection: client.admin.command('ping')
\* raises after MongoClient(...) made the client, outside the caller's try
ConnFaults == {"read_conn", "lookup_conn", "update_conn"}

\* clients left open by the calls that raised fr: a client whose ping raised
\* is returned to nobody, so no finally clause closes it; every other exit of
\* a store function goes through finally: client.close()
LeakedClients(fr) == Cardinality(fr \cap ConnFaults)

----------------------------------------------------------------------------
(* The store *)

\* insert_many(records), ordered: stops at the first duplicate _id
insert_many(st, records) ==
    LET F[i \in 0..Len(records)] ==
            IF i = 0 THEN [store |-> st, err |-> FALSE]
            ELSE IF F[i - 1].err THEN F[i - 1]
            ELSE IF records[i].id \in IdsOf(F[i - 1].store)
                 THEN [store |-> F[i - 1].store, err |-> TRUE]
                 ELSE [store |-> Append(F[i - 1].store, records[i]), err |-> FALSE]
    IN F[Len(records)]

\* variant of delete_many whose filter matches every document
delete_many_all(st, rejected_ids) == <<>>

\* variant of delete_many that deletes nothing
delete_many_nothing(st, rejected_ids) == st

\* delete_many({'_id': {'$in': rejected_ids}})
delete_many(st, rejected_ids) == DropLabels(st, {rejected_ids[i] : i \in DOMAIN rejected_ids})

\* variant of NewEntries that finds every id in the store
NewEntriesNone(df, st) == <<>>

\* df[~df.index.isin(existing_ids)]
NewEntries(df, st) == DropLabels(df, IdsOf(st))

\* update_entries(df, rejected_ids)
update_entries(st, df, rejected_ids, f) ==
    IF f.kind = "update_conn"
    THEN [store |-> st, crashed |-> TRUE, fired |-> {"update_conn"}]
    ELSE IF rejected_ids # <<>> /\ f.kind = "delete_many"
    THEN [store |-> st, crashed |-> FALSE, fired |-> {"delete_many"}]
    ELSE
      LET st1 == IF rejected_ids # <<>> THEN delete_many(st, rejected_ids) ELSE st
      IN IF df = <<>> THEN [store |-> st1, crashed |-> FALSE, fired |-> {}]
         ELSE IF f.kind = "find_existing"
         THEN [store |-> st1, crashed |-> FALSE, fired |-> {"find_existing"}]
         ELSE
           LET new_entries_df == NewEntries(df, st1)
           IN IF new_entries_df = <<>>
              THEN [store |-> st1, crashed |-> FALSE, fired |-> {}]
              ELSE IF f.kind = "insert_many"
              THEN [store |-> st1, crashed |-> FALSE, fired |-> {"insert_many"}]
              ELSE LET ins == insert_many(st1, new_entries_df)
                   IN [store |-> ins.store, crashed |-> FALSE,
                       fired |-> IF ins.err THEN {"dup_key"} ELSE {}]

\* get_google_event_id(entry_id): 0 when the document or the field is missing
get_google_event_id(st, entry_id) ==
    IF \E i \in DOMAIN st : st[i].id = entry_id
    THEN LET i == CHOOSE j \in DOMAIN st : st[j].id = entry_id IN st[i].gid
    ELSE 0

\* variant of store_google_event_id whose filter matches every document
store_google_event_id_all(st, document_id, google_event_id) ==
    [i \in DOMAIN st |-> [st[i] EXCEPT !.gid = google_event_id]]

\* store_google_event_id(document_id, google_event_id): update_one, $set
store_google_event_id(st, document_id, google_event_id) ==
    [i \in DOMAIN st |->
        IF st[i].id = document_id THEN [st[i] EXCEPT !.gid = google_event_id] ELSE st[i]]

----------------------------------------------------------------------------
(* The calendar *)

\* service.events().delete(eventId): removes the event, raises when it is gone
EventsDelete(cl, eid) == {e \in cl : e.eid # eid}

\* variant of event_exists that never finds an event
event_exists_never(cl, slot) == FALSE

\* event_exists(start_time, end_time)
event_exists(cl, slot) == \E e \in cl : e.slot = slot

\* variant of delete_calendar_event without the except clause: the exception
\* of the calendar delete call leaves sync_entries
delete_calendar_event_raises(s, st, entry_id, f) ==
    IF s.crashed THEN s
    ELSE IF f.kind = "lookup_conn"
    THEN [s EXCEPT !.crashed = TRUE, !.fired = @ \cup {"lookup_conn"},
                   !.dels = Append(@, entry_id)]
    ELSE
      LET google_event_id == IF f.kind = "lookup_query" THEN 0
                             ELSE get_google_event_id(st, entry_id)
          fr == IF f.kind = "lookup_query" THEN {"lookup_query"} ELSE {}
      IN IF google_event_id = 0
         THEN [s EXCEPT !.fired = @ \cup fr, !.dels = Append(@, entry_id)]
         ELSE IF google_event_id = NaN
         THEN [s EXCEPT !.dels = Append(@, entry_id), !.reqs = Append(@, NaN)]
         ELSE IF f.kind = "cal_delete" /\ f.at = entry_id
         THEN [s EXCEPT !.crashed = TRUE, !.fired = @ \cup {"cal_delete"},
                        !.dels = Append(@, entry_id)]
         ELSE [s EXCEPT !.cal = EventsDelete(@, google_event_id),
                        !.dels = Append(@, entry_id),
                        !.reqs = Append(@, google_event_id)]

\* delete_calendar_event(entry_id) for one entry, from state
\* s = [cal, crashed, fired, dels, reqs]; dels are the entries it was called
\* for, reqs the event ids of the delete requests that reached the calendar.
\* events().delete(eventId=None) raises TypeError before any request is made;
\* eventId=nan is sent as 'nan' and answered 404; both land in the except
delete_calendar_event(s, st, entry_id, f) ==
    IF s.crashed THEN s
    ELSE IF f.kind = "lookup_conn"
    THEN [s EXCEPT !.crashed = TRUE, !.fired = @ \cup {"lookup_conn"},
                   !.dels = Append(@, entry_id)]
    ELSE
      LET google_event_id == IF f.kind = "lookup_query" THEN 0
                             ELSE get_google_event_id(st, entry_id)
          fr == IF f.kind = "lookup_query" THEN {"lookup_query"} ELSE {}
      IN IF google_event_id = 0
         THEN [s EXCEPT !.fired = @ \cup fr, !.dels = Append(@, entry_id)]
         ELSE IF google_event_id = NaN
         THEN [s EXCEPT !.dels = Append(@, entry_id), !.reqs = Append(@, NaN)]
         ELSE IF f.kind = "cal_delete" /\ f.at = entry_id
         THEN [s EXCEPT !.fired = @ \cup {"cal_delete"}, !.dels = Append(@, entry_id)]
         ELSE [s EXCEPT !.cal = EventsDelete(@, google_event_id),
                        !.dels = Append(@, entry_id),
                        !.reqs = Append(@, google_event_id)]

\* variant of DeleteRejected that runs after the store delete of update_entries
DeleteRejectedAfterStoreDelete(rejected_ids, st, cl, f) ==
    LET F[i \in 0..Len(rejected_ids)] ==
            IF i = 0 THEN [cal |-> cl, crashed |-> FALSE, fired |-> {}, dels |-> <<>>,
                           reqs |-> <<>>]
            ELSE delete_calendar_event(F[i - 1], delete_many(st, rejected_ids),
                                       rejected_ids[i], f)
    IN F[Len(rejected_ids)]

\* for entry_id in rejected_ids: delete_calendar_event(service, entry_id)
DeleteRejected(rejected_ids, st, cl, f) ==
    LET F[i \in 0..Len(rejected_ids)] ==
            IF i = 0 THEN [cal |-> cl, crashed |-> FALSE, fired |-> {}, dels |-> <<>>,
                           reqs |-> <<>>]
            ELSE delete_calendar_event(F[i - 1], st, rejected_ids[i], f)
    IN F[Len(rejected_ids)]

----------------------------------------------------------------------------
(* sync_entries *)

\* list(cur_df[(Status == 'Rejected') & index.isin(old_df.index)].index)
RejectedIds(cur_df, old_df) ==
    LET rows == SelectSeq(cur_df,
                   LAMBDA r : r.status = "Rejected" /\ r.id \in IdsOf(old_df))
    IN [i \in DOMAIN rows |-> rows[i].id]

\* concat, drop the invalid statuses, drop the duplicated labels
Merge(cur_df, old_df) == KeepFirst(DropInvalid(Concat(cur_df, old_df)))

sync_entries(cur_df0, st, cl, f) ==
    LET cur_df == MonthFilter(cur_df0)
        none == [ret |-> <<>>, store |-> st, cal |-> cl, old |-> <<>>,
                 dels |-> <<>>, crashed |-> FALSE, fired |-> {}]
    IN IF f.kind = "read_conn"
       THEN [none EXCEPT !.crashed = TRUE, !.fired = {"read_conn"}]
       ELSE
         LET old_df == IF f.kind = "read_query" THEN <<>> ELSE get_month_entries_db(st)
             fr0 == IF f.kind = "read_query" THEN {"read_query"} ELSE {}
         IN IF cur_df = <<>>
            THEN [none EXCEPT !.ret = old_df, !.old = old_df, !.fired = fr0]
            ELSE IF old_df = <<>>
            THEN LET valid_df == DropInvalid(cur_df)
                     u == update_entries(st, valid_df, <<>>, f)
                 IN [ret |-> IF u.crashed THEN <<>> ELSE valid_df,
                     store |-> u.store, cal |-> cl, old |-> old_df, dels |-> <<>>,
                     crashed |-> u.crashed, fired |-> fr0 \cup u.fired]
            ELSE LET rejected_ids == RejectedIds(cur_df, old_df)
                     rej == {rejected_ids[i] : i \in DOMAIN rejected_ids}
                     d == DeleteRejected(rejected_ids, st, cl, f)
                     new_df == Merge(AlignColumns(DropLabels(cur_df, rej), old_df),
                                     DropLabels(old_df, rej))
                     u == update_entries(st, new_df, rejected_ids, f)
                 IN IF d.crashed
                    THEN [ret |-> <<>>, store |-> st, cal |-> d.cal, old |-> old_df,
                          dels |-> d.dels, crashed |-> TRUE, fired |-> d.fired]
                    ELSE [ret |-> IF u.crashed THEN <<>> ELSE new_df,
                          store |-> u.store, cal |-> d.cal, old |-> old_df,
                          dels |-> d.dels, crashed |-> u.crashed,
                          fired |-> d.fired \cup u.fired]

----------------------------------------------------------------------------
(* process_punch_data *)

\* get_month_data(df, target_date)
get_month_data(df) == MonthFilter(df)

\* one iteration of the loop over df.iterrows(), from state
\* s = [store, cal, nextEid, crashed, fired, created]
ProjectRow(s, row, i, f) ==
    IF s.crashed THEN s
    ELSE IF f.kind = "list" /\ f.at = i
    THEN [s EXCEPT !.crashed = TRUE, !.fired = @ \cup {"list"}]
    ELSE IF event_exists(s.cal, row.slot) THEN s
    ELSE IF f.kind = "insert" /\ f.at = i
    THEN [s EXCEPT !.crashed = TRUE, !.fired = @ \cup {"insert"}]
    ELSE
      LET ev == [eid |-> s.nextEid, slot |-> row.slot, pid |-> row.id]
          s1 == [s EXCEPT !.cal = @ \cup {ev}, !.nextEid = @ + 1, !.created = @ + 1]
      IN IF f.kind = "writeback" /\ f.at = i
         THEN [s1 EXCEPT !.crashed = TRUE, !.fired = @ \cup {"writeback"}]
         ELSE [s1 EXCEPT !.store = store_google_event_id(@, row.id, ev.eid)]

process_punch_data(df0, st, cl, ne, f) ==
    LET df == get_month_data(df0)
        F[i \in 0..Len(df)] ==
            IF i = 0 THEN [store |-> st, cal |-> cl, nextEid |-> ne,
                           crashed |-> FALSE, fired |-> {}, created |-> 0]
            ELSE ProjectRow(F[i - 1], df[i], i, f)
    IN F[Len(df)]

----------------------------------------------------------------------------
(* main *)

\* the function under study has not been called
NotCalled == [called |-> FALSE, raised |-> FALSE, value |-> <<>>]

\* no function study and no concurrent run is under way
SideIdle ==
    /\ input = <<>>
    /\ output = NotCalled
    /\ runs = <<>>
    /\ overlapped = FALSE
    /\ PipeIdle

\* no run of main has started
MainIdle ==
    /\ pc = "idle"
    /\ cur = <<>>
    /\ old = <<>>
    /\ result = <<>>
    /\ dels = <<>>
    /\ fired = {}
    /\ created = 0
    /\ store0 = <<>>
    /\ cal0 = {}
    /\ open = 0

Init ==
    /\ store = <<>>
    /\ cal = {}
    /\ nextEid = 1
    /\ MainIdle
    /\ SideIdle

\* the frames that the two scrapes of a run can add up to: the rows of the
\* target month of pd.concat([j_df, e_df]), for every pair of tables of at
\* most MaxRows rows together
ScrapedFrames ==
    UNION {{MonthFilter(to_dataframe(j_rows) \o to_dataframe(e_rows)) :
                e_rows \in SeqsUpTo(RawRows, MaxRows - Len(j_rows))} :
           j_rows \in SeqsUpTo(RawRows, MaxRows)}

\* the rows of the target month of j_df, for every table of the first employee
FirstFrames == {MonthFilter(to_dataframe(j_rows)) : j_rows \in SeqsUpTo(RawRows, MaxRows)}

\* get_table and to_dataframe for both employees, pd.concat([j_df, e_df]), and
\* the first statement of sync_entries, which keeps the rows of the target month;
\* get_table quits the browser session it opened before it returns
Scrape ==
    /\ pc = "idle"
    /\ cur' \in ScrapedFrames
    /\ pc' = "scraped"
    /\ store0' = store
    /\ cal0' = cal
    /\ UNCHANGED <<store, cal, nextEid, old, result, dels, fired, created, open, side>>

\* get_table returns ([], []) for one employee (failed login, table not found,
\* any exception): to_dataframe([], [], name) raises KeyError at
\* df.set_index('Id') and main ends there.  When it is the first employee the
\* second one is never scraped; when it is the second, cur holds j_df, the
\* records of the first employee (of the target month), which no later
\* statement receives.
ScrapeFails ==
    /\ pc = "idle"
    /\ \/ cur' = <<>>
       \/ cur' \in FirstFrames
    /\ pc' = "crashed"
    /\ fired' = {"get_table", "key_error"}
    /\ store0' = store
    /\ cal0' = cal
    /\ UNCHANGED <<store, cal, nextEid, old, result, dels, created, open, side>>

\* the rest of df = sync_entries(pd.concat([j_df, e_df]), target_date, service)
Sync ==
    /\ pc = "scraped"
    /\ \E f \in SyncFaults :
         \E r \in {sync_entries(cur, store, cal, f)} :
            /\ store' = r.store
            /\ cal' = r.cal
            /\ old' = r.old
            /\ result' = r.ret
            /\ dels' = r.dels
            /\ fired' = r.fired
            /\ pc' = IF r.crashed THEN "crashed" ELSE "synced"
            /\ open' = open + LeakedClients(r.fired)
    /\ UNCHANGED <<nextEid, cur, created, store0, cal0, side>>

\* sync_entries returned old_df = pd.DataFrame(): no 'Employee Name' column
NoColumns == cur = <<>> /\ old = <<>>

\* main after sync_entries: df[df['Employee Name'] == ...], print_hours,
\* email_employee, process_punch_data(df, target_date, service)
Project ==
    /\ pc = "synced"
    /\ IF NoColumns
       THEN /\ pc' = "crashed"
            /\ fired' = fired \cup {"key_error"}
            /\ UNCHANGED <<store, cal, nextEid, created>>
       ELSE \E f \in ProjFaults :
              \E r \in {process_punch_data(result, store, cal, nextEid, f)} :
                 /\ r.nextEid <= MaxEid + 1
                 /\ store' = r.store
                 /\ cal' = r.cal
                 /\ nextEid' = r.nextEid
                 /\ created' = r.created
                 /\ fired' = fired \cup r.fired
                 /\ pc' = IF r.crashed THEN "crashed" ELSE "done"
    /\ UNCHANGED <<cur, old, result, dels, store0, cal0, open, side>>

\* the process ends; its dataframes are gone, the store and the calendar stay
Exit ==
    /\ pc \in {"done", "crashed"}
    /\ pc' = "idle"
    /\ cur' = <<>>
    /\ old' = <<>>
    /\ result' = <<>>
    /\ dels' = <<>>
    /\ fired' = {}
    /\ created' = 0
    /\ store0' = <<>>
    /\ cal0' = {}
    /\ open' = 0
    /\ UNCHANGED <<store, cal, nextEid, side>>

Next == Scrape \/ ScrapeFails \/ Sync \/ Project \/ Exit

Spec == Init /\ [][Next]_vars

\* the variables of main
main_vars == <<store, cal, nextEid, pc, cur, old, result, dels, fired, created,
               store0, cal0, open>>

----------------------------------------------------------------------------
(* to_dataframe as a function of the scraped table *)

\* a scraped row; parses tells whether its 'Service Date', 'Start Time' and
\* 'End Time' strings match date_format and time_format
TableRows == [id : Ids, status : Statuses, slot : Slots, gid : {0}, parses : BOOLEAN]

\* pd.to_datetime(column, format=...): raises ValueError when a string of the
\* column does not match the format
to_datetime_raises(df) == \E i \in DOMAIN df : ~df[i].parses

\* the typed columns of the rows that went through the conversions
TypedRows(df) ==
    [i \in DOMAIN df |->
        [id |-> df[i].id, status |-> df[i].status, slot |-> df[i].slot, gid |-> df[i].gid]]

\* to_dataframe(table_header, table_data, emp_name) on rows of any content:
\* set_index and the drop of the Open labels, then the conversions
to_dataframe_call(table_data) ==
    LET df == to_dataframe(table_data)
    IN IF to_datetime_raises(df)
       THEN [called |-> TRUE, raised |-> TRUE, value |-> <<>>]
       ELSE [called |-> TRUE, raised |-> FALSE, value |-> TypedRows(df)]

NormInit ==
    /\ store = <<>>
    /\ cal = {}
    /\ nextEid = 1
    /\ MainIdle
    /\ input \in SeqsUpTo(TableRows, MaxRows)
    /\ output = NotCalled
    /\ runs = <<>>
    /\ overlapped = FALSE
    /\ PipeIdle

\* j_df = to_dataframe(j_table_header, j_table_data, 'Jesus')
Normalize ==
    /\ ~output.called
    /\ output' = to_dataframe_call(input)
    /\ UNCHANGED <<main_vars, pipe, input, runs, overlapped>>

NormNext == Normalize

NormSpec == NormInit /\ [][NormNext]_vars

----------------------------------------------------------------------------
(* Two runs of main against the same month, both at process_punch_data on the *)
(* same reconciled set.  The loop body of process_punch_data is two calls to  *)
(* the calendar: the list call of event_exists, then the insert call of       *)
(* add_calendar_event; nothing makes the pair atomic.                         *)

Procs == {1, 2}

\* the reconciled sets of the month: valid records without a repeated id
ReconciledSets ==
    {df \in SeqsUpTo([id : Ids, status : {"Approved"}, slot : MonthSlots, gid : {0}], MaxRows) :
        \A i, j \in DOMAIN df : df[i].id = df[j].id => i = j}

RaceInit ==
    /\ \E df \in ReconciledSets : result = df /\ store = df
    /\ cal = {}
    /\ nextEid = 1
    /\ pc = "synced"
    /\ cur = <<>>
    /\ old = <<>>
    /\ dels = <<>>
    /\ fired = {}
    /\ created = 0
    /\ store0 = <<>>
    /\ cal0 = {}
    /\ open = 0
    /\ input = <<>>
    /\ output = NotCalled
    /\ runs = [p \in Procs |-> [pc |-> "idle", i |-> 0]]
    /\ overlapped = FALSE
    /\ PipeIdle

\* the next iteration of for entry_id, row in df.iterrows(), or the end of the loop
NextRow(p) ==
    IF runs[p].i < Len(get_month_data(result))
    THEN [runs EXCEPT ![p] = [pc |-> "check", i |-> runs[p].i + 1]]
    ELSE [runs EXCEPT ![p] = [pc |-> "end", i |-> runs[p].i]]

\* process_punch_data is entered: df = get_month_data(df, target_date)
RunStart(p) ==
    /\ runs[p].pc = "idle"
    /\ runs' = NextRow(p)
    /\ overlapped' = (overlapped \/ \E q \in Procs \ {p} : runs[q].pc \in {"check", "create"})
    /\ UNCHANGED <<main_vars, pipe, input, output>>

\* if event_exists(service, row['Start Time'], row['End Time']): continue
RunCheck(p) ==
    /\ runs[p].pc = "check"
    /\ runs' = IF event_exists(cal, get_month_data(result)[runs[p].i].slot)
               THEN NextRow(p)
               ELSE [runs EXCEPT ![p].pc = "create"]
    /\ UNCHANGED <<main_vars, pipe, input, output, overlapped>>

\* add_calendar_event(...): events().insert, then store_google_event_id
RunCreate(p) ==
    /\ runs[p].pc = "create"
    /\ LET row == get_month_data(result)[runs[p].i]
           ev == [eid |-> nextEid, slot |-> row.slot, pid |-> row.id]
       IN /\ cal' = cal \cup {ev}
          /\ nextEid' = nextEid + 1
          /\ store' = store_google_event_id(store, row.id, ev.eid)
    /\ runs' = NextRow(p)
    /\ UNCHANGED <<pc, cur, old, result, dels, fired, created, store0, cal0, open,
                   input, output, overlapped, pipe>>

RaceNext == \E p \in Procs : RunStart(p) \/ RunCheck(p) \/ RunCreate(p)

RaceSpec == RaceInit /\ [][RaceNext]_vars

----------------------------------------------------------------------------
(* calculate_hours as a function of the record set *)

\* 'Service Code' values: the three buckets and any other code
Codes == {"331", "320", "310", "other"}

Buckets == {"331", "320", "310"}

\* first_end = month_start.replace(day=15)
FirstEnd == 15

\* second_start = month_start.replace(day=16)
SecondStart == 16

\* 'Amount' values, in seconds (to_dataframe makes them whole minutes)
Amounts == {0, 1800, 3540}

\* day of the month of the 'Service Date' of an in-month interval: the
\* intervals 1, 2, ... lie on the days 15, 16, ...
ServiceDay(slot) == FirstEnd - 1 + slot

\* a record as calculate_hours reads it: 'Service Date', 'Service Code', 'Amount'
HourRows == [slot : Slots, code : Codes, amount : Amounts]

\* variant of get_biweekly_data whose second period starts on first_end
get_biweekly_data_overlapping(df) ==
    LET month_df == MonthFilter(df)
    IN [first |-> SelectSeq(month_df, LAMBDA r : ServiceDay(r.slot) <= FirstEnd),
        second |-> SelectSeq(month_df, LAMBDA r : ServiceDay(r.slot) >= FirstEnd)]

\* get_biweekly_data(df, target_date)
get_biweekly_data(df) ==
    LET month_df == MonthFilter(df)
    IN [first |-> SelectSeq(month_df, LAMBDA r : ServiceDay(r.slot) <= FirstEnd),
        second |-> SelectSeq(month_df, LAMBDA r : ServiceDay(r.slot) >= SecondStart)]

\* df['Amount'].sum()
AmountSum(df) ==
    LET F[i \in 0..Len(df)] == IF i = 0 THEN 0 ELSE F[i - 1] + df[i].amount
    IN F[Len(df)]

\* format_hhmmss without the wrap of the minutes at the hour
format_hhmmss_minutes_unwrapped(td) ==
    [hours |-> td \div 3600, minutes |-> td \div 60, seconds |-> td % 60]

\* format_hhmmss(td) from the whole number of seconds on: the three numbers
\* of the string "HH:MM:SS"
format_hhmmss(td) ==
    [hours |-> td \div 3600, minutes |-> (td % 3600) \div 60, seconds |-> td % 60]

\* one of the three dictionaries of calculate_hours, formatted
HoursOf(df) ==
    [b \in Buckets \cup {"Total Hours"} |->
        IF b = "Total Hours"
        THEN format_hhmmss(AmountSum(df))
        ELSE format_hhmmss(AmountSum(SelectSeq(df, LAMBDA r : r.code = b)))]

\* calculate_hours(df, target_date)
calculate_hours(df0) ==
    LET df == get_month_data(df0)
        bi == get_biweekly_data(df)
    IN [first |-> HoursOf(bi.first), second |-> HoursOf(bi.second), month |-> HoursOf(df)]

HoursInit ==
    /\ store = <<>>
    /\ cal = {}
    /\ nextEid = 1
    /\ MainIdle
    /\ input \in SeqsUpTo(HourRows, MaxRows)
    /\ output = NotCalled
    /\ runs = <<>>
    /\ overlapped = FALSE
    /\ PipeIdle

\* first, second, month = calculate_hours(df, target_date)
Aggregate ==
    /\ ~output.called
    /\ output' = [called |-> TRUE, raised |-> FALSE, value |-> calculate_hours(input)]
    /\ UNCHANGED <<main_vars, pipe, input, runs, overlapped>>

HoursNext == Aggregate

HoursSpec == HoursInit /\ [][HoursNext]_vars

----------------------------------------------------------------------------
(* get_biweekly_data as a function of the record set *)

\* first_biweekly, second_biweekly = get_biweekly_data(df, target_date)
Split ==
    /\ ~output.called
    /\ output' = [called |-> TRUE, raised |-> FALSE, value |-> get_biweekly_data(input)]
    /\ UNCHANGED <<main_vars, pipe, input, runs, overlapped>>

SplitNext == Split

SplitSpec == HoursInit /\ [][SplitNext]_vars

----------------------------------------------------------------------------
(* One run of main, statement by statement, without exceptions.  input is  *)
(* sys.platform == 'linux'; pc is the statement main has reached.          *)

PipelineInit ==
    /\ store = <<>>
    /\ cal = {}
    /\ nextEid = 1
    /\ MainIdle
    /\ input \in BOOLEAN
    /\ output = NotCalled
    /\ runs = <<>>
    /\ overlapped = FALSE
    /\ PipeIdle

\* j_table_header, j_table_data = get_table(*jesus_creds)
GetTableJesus ==
    /\ pc = "idle"
    /\ \E rows \in SeqsUpTo(RawRows, MaxRows) : table' = rows
    /\ stages' = Append(stages, "scrape")
    /\ pc' = "j_table"
    /\ UNCHANGED <<store, cal, nextEid, cur, old, result, dels, fired, created,
                   store0, cal0, open, input, output, runs, overlapped>>

\* j_df = to_dataframe(j_table_header, j_table_data, 'Jesus')
ToDataframeJesus ==
    /\ pc = "j_table"
    /\ cur' = to_dataframe(table)
    /\ table' = <<>>
    /\ stages' = Append(stages, "normalize")
    /\ pc' = "j_df"
    /\ UNCHANGED <<store, cal, nextEid, old, result, dels, fired, created,
                   store0, cal0, open, input, output, runs, overlapped>>

\* e_table_header, e_table_data = get_table(*enrique_creds)
GetTableEnrique ==
    /\ pc = "j_df"
    /\ \E rows \in SeqsUpTo(RawRows, MaxRows - Len(cur)) : table' = rows
    /\ stages' = Append(stages, "scrape")
    /\ pc' = "e_table"
    /\ UNCHANGED <<store, cal, nextEid, cur, old, result, dels, fired, created,
                   store0, cal0, open, input, output, runs, overlapped>>

\* e_df = to_dataframe(e_table_header, e_table_data, 'Enrique'), and
\* pd.concat([j_df, e_df]) in the call of sync_entries
ToDataframeEnrique ==
    /\ pc = "e_table"
    /\ cur' = cur \o to_dataframe(table)
    /\ table' = <<>>
    /\ stages' = Append(stages, "normalize")
    /\ pc' = "e_df"
    /\ UNCHANGED <<store, cal, nextEid, old, result, dels, fired, created,
                   store0, cal0, open, input, output, runs, overlapped>>

\* df = sync_entries(pd.concat([j_df, e_df]), target_date, service): the
\* reconciliation, and update_entries as its last statement
SyncEntries ==
    /\ pc = "e_df"
    /\ LET r == sync_entries(cur, store, cal, NoFault)
       IN /\ store' = r.store
          /\ cal' = r.cal
          /\ old' = r.old
          /\ result' = r.ret
          /\ dels' = r.dels
          /\ fired' = r.fired
    /\ stages' = stages \o <<"reconcile", "persist">>
    /\ pc' = "df"
    /\ UNCHANGED <<nextEid, cur, created, store0, cal0, open, table,
                   input, output, runs, overlapped>>

\* j_df = df[df['Employee Name'] == 'Jesus'], e_df likewise (KeyError on the
\* frame without columns), print_hours(df, target_date)
PrintHours ==
    /\ pc = "df"
    /\ IF MonthFilter(cur) = <<>> /\ old = <<>>
       THEN /\ pc' = "crashed"
            /\ fired' = fired \cup {"key_error"}
            /\ UNCHANGED stages
       ELSE /\ pc' = "printed"
            /\ stages' = Append(stages, "report")
            /\ UNCHANGED fired
    /\ UNCHANGED <<store, cal, nextEid, cur, old, result, dels, created,
                   store0, cal0, open, table, input, output, runs, overlapped>>

\* if sys.platform == 'linux': email_employee(j_df, ...), email_employee(e_df, ...)
EmailEmployees ==
    /\ pc = "printed"
    /\ stages' = IF input THEN stages \o <<"notify", "notify">> ELSE stages
    /\ pc' = "emailed"
    /\ UNCHANGED <<store, cal, nextEid, cur, old, result, dels, fired, created,
                   store0, cal0, open, table, input, output, runs, overlapped>>

\* process_punch_data(df, target_date, service)
ProcessPunchData ==
    /\ pc = "emailed"
    /\ LET r == process_punch_data(result, store, cal, nextEid, NoFault)
       IN /\ store' = r.store
          /\ cal' = r.cal
          /\ nextEid' = r.nextEid
          /\ created' = r.created
    /\ stages' = Append(stages, "project")
    /\ pc' = "done"
    /\ UNCHANGED <<cur, old, result, dels, fired, store0, cal0, open, table,
                   input, output, runs, overlapped>>

PipelineNext ==
    \/ GetTableJesus
    \/ ToDataframeJesus
    \/ GetTableEnrique
    \/ ToDataframeEnrique
    \/ SyncEntries
    \/ PrintHours
    \/ EmailEmployees
    \/ ProcessPunchData

PipelineSpec == PipelineInit /\ [][PipelineNext]_vars

----------------------------------------------------------------------------
(* format_hhmmss as a function of the duration *)

\* a duration is a whole number of ticks, TicksPerSecond ticks to the second
TicksPerSecond == 4
\* longest duration formatted, in seconds (more than 24 hours)
MaxSeconds == 90000

Durations == 0..(MaxSeconds * TicksPerSecond)

\* int(td.total_seconds()) of a non-negative duration
total_seconds(td) == td \div TicksPerSecond

FormatInit ==
    /\ store = <<>>
    /\ cal = {}
    /\ nextEid = 1
    /\ MainIdle
    /\ input \in Durations
    /\ output = NotCalled
    /\ runs = <<>>
    /\ overlapped = FALSE
    /\ PipeIdle

\* format_hhmmss(td)
Format ==
    /\ ~output.called
    /\ output' = [called |-> TRUE, raised |-> FALSE,
                  value |-> format_hhmmss(total_seconds(input))]
    /\ UNCHANGED <<main_vars, pipe, input, runs, overlapped>>

FormatNext == Format

FormatSpec == FormatInit /\ [][FormatNext]_vars

----------------------------------------------------------------------------
(* Vocabulary of the properties *)

Valid(r) == r.status \notin InvalidStatuses

NoDupIds(df) == \A i, j \in DOMAIN df : df[i].id = df[j].id => i = j

RowSet(df) == {df[i] : i \in DOMAIN df}

Count(seq, x) == Cardinality({i \in DOMAIN seq : seq[i] = x})

RowsOf(df, id) == SelectSeq(df, LAMBDA r : r.id = id)

\* the scraped fields of a row
Scraped(r) == [id |-> r.id, status |-> r.status, slot |-> r.slot]

\* a frame or the documents of the store without the google_event_id
Punches(df) == [i \in DOMAIN df |-> Scraped(df[i])]

\* exceptions that come from outside the program (not the duplicate-key error
\* and not the KeyError that the program brings about itself)
InjectedFaults ==
    {"read_conn", "read_query", "lookup_conn", "lookup_query", "update_conn",
     "delete_many", "find_existing", "insert_many", "cal_delete",
     "list", "insert", "writeback"}

\* sync_entries has returned in this run
Returned == pc \in {"synced", "done"}

\* process_punch_data has run in this run (to its end, or to an exception)
Projected == pc = "done" \/ (pc = "crashed" /\ fired \cap {"list", "insert", "writeback"} # {})

\* a whole run of main without any injected fault, from a given store and calendar
CleanRun(cur_df, st, cl, ne) ==
    LET s == sync_entries(cur_df, st, cl, NoFault)
    IN IF cur_df = <<>> /\ s.old = <<>>
       THEN [store |-> s.store, cal |-> s.cal]
       ELSE LET p == process_punch_data(s.ret, s.store, s.cal, ne, NoFault)
            IN [store |-> p.store, cal |-> p.cal]

\* the store and the calendar up to the names of the events; linked tells
\* whether the document's google_event_id names an event of the calendar
View(st, cl) ==
    [punches |-> {[id |-> st[i].id, status |-> st[i].status, slot |-> st[i].slot,
                   linked |-> \E e \in cl : e.eid = st[i].gid] : i \in DOMAIN st},
     events |-> {[slot |-> e.slot, pid |-> e.pid] : e \in cl}]

NoPunchTwice(cl) == \A e1, e2 \in cl : e1.pid = e2.pid => e1 = e2

\* in-month intervals of df that have no event in cl
MissingSlots(df, cl) == {r.slot : r \in {x \in RowSet(df) : InMonth(x)}} \ {e.slot : e \in cl}

----------------------------------------------------------------------------
(* C1 *)

\* C1: running sync_entries a second time with the same fresh batch, on the
\* store the first run left, returns the same record set as the first run.
C1_Idempotent ==
    (pc = "synced" /\ fired \cap InjectedFaults = {})
        => RowSet(sync_entries(cur, store, cal, NoFault).ret) = RowSet(result)

(* C2 *)

\* C2: on every return path of sync_entries the returned dataframe has no
\* two rows with the same id.
C2_NoDuplicateIds == pc = "synced" => NoDupIds(result)

(* C3 *)

\* C3: every id that is in the stored set and Rejected in the fresh batch is
\* absent from the returned set, and delete_calendar_event was called exactly
\* once for it in this run.
C3_RejectionRetracts ==
    pc = "synced" =>
        \A id \in IdsOf(old) :
            (\E i \in DOMAIN cur : cur[i].id = id /\ cur[i].status = "Rejected")
                => (id \notin IdsOf(result) /\ Count(dels, id) = 1)

(* C4 *)

\* C4: an id that is in the stored set and whose fresh rows are valid has
\* exactly one row in the returned set, and that row is the (first) fresh row
\* of the id, not the stored one.
C4_FreshWins ==
    pc = "synced" =>
        \A id \in IdsOf(old) \cap IdsOf(cur) :
            (\A i \in DOMAIN cur : cur[i].id = id => Valid(cur[i]))
                => /\ Len(RowsOf(result, id)) = 1
                   /\ Scraped(RowsOf(result, id)[1]) = Scraped(RowsOf(cur, id)[1])

C4_Witness ==
    /\ pc = "synced"
    /\ fired = {}
    /\ \E id \in IdsOf(old) \cap IdsOf(cur) :
          /\ \A i \in DOMAIN cur : cur[i].id = id => Valid(cur[i])
          /\ RowsOf(old, id)[1].slot # RowsOf(cur, id)[1].slot
          /\ Len(RowsOf(result, id)) = 1
          /\ Scraped(RowsOf(result, id)[1]) = Scraped(RowsOf(cur, id)[1])

(* C5 *)

\* C5: no row with status Open, Unvalidated or Rejected is in the dataframe
\* sync_entries returned, whatever the runs before.
C5_StatusFilter == Returned => \A i \in DOMAIN result : Valid(result[i])

C5_Witness ==
    /\ pc = "synced"
    /\ old # <<>>
    /\ result # <<>>
    /\ \E i \in DOMAIN cur : cur[i].status = "Unvalidated" /\ cur[i].id \in IdsOf(old)

(* C6 *)

\* the store after a further failure-free run of main with the same scrape
RerunStore == CleanRun(cur, store, cal, nextEid).store

\* C6 as stated: after a completed failure-free run the store holds exactly
\* the valid punches: every punch scraped valid is stored, no stored punch was
\* scraped Open, Unvalidated or Rejected, and a further run with the same
\* scrape leaves the store unchanged.
C6_StoreIsExactlyValid ==
    (pc = "done" /\ fired = {}) =>
        /\ \A i \in DOMAIN cur :
              (\A j \in DOMAIN cur : cur[j].id = cur[i].id => Valid(cur[j]))
                  => cur[i].id \in IdsOf(store)
        /\ \A id \in IdsOf(store) :
              \A i \in DOMAIN cur : cur[i].id = id => Valid(cur[i])
        /\ RerunStore = store

\* C6 amended: after a completed failure-free run every punch scraped valid
\* is stored, no stored punch was scraped Rejected, every punch stored before
\* the run and not scraped Rejected is still stored (with its fields, whatever
\* else the scrape says of it), and a further run with the same scrape leaves
\* the store unchanged.
C6_StoreConverges ==
    (pc = "done" /\ fired = {}) =>
        /\ \A i \in DOMAIN cur :
              (\A j \in DOMAIN cur : cur[j].id = cur[i].id => Valid(cur[j]))
                  => cur[i].id \in IdsOf(store)
        /\ \A id \in IdsOf(store) :
              \A i \in DOMAIN cur : cur[i].id = id => cur[i].status # "Rejected"
        /\ \A k \in DOMAIN store0 :
              (\A i \in DOMAIN cur :
                    cur[i].id = store0[k].id => cur[i].status # "Rejected")
                  => \E m \in DOMAIN store :
                        /\ store[m].id = store0[k].id
                        /\ store[m].status = store0[k].status
                        /\ store[m].slot = store0[k].slot
        /\ \A m \in DOMAIN store : Valid(store[m])
        /\ RerunStore = store

C6_Witness ==
    /\ pc = "done"
    /\ fired = {}
    /\ \E i \in DOMAIN cur :
          cur[i].status = "Unvalidated" /\ cur[i].id \in IdsOf(store0) \cap IdsOf(store)
    /\ \E i \in DOMAIN cur :
          cur[i].status = "Rejected" /\ cur[i].id \in IdsOf(store0) \ IdsOf(store)

(* C7 *)

\* C7: when a step of a run failed after an earlier step succeeded, a further
\* failure-free run with the same scrape leaves the store and the calendar as
\* a failure-free run from the start would have left them (checked for the
\* runs that raise no duplicate-key error).
C7_Recovery ==
    (pc \in {"done", "crashed"} /\ fired \cap InjectedFaults # {} /\ "dup_key" \notin fired) =>
        LET again == CleanRun(cur, store, cal, nextEid)
            first == CleanRun(cur, store0, cal0, nextEid)
        IN View(again.store, again.cal) = View(first.store, first.cal)

(* C8 *)

\* C8: the calendar never holds two events created for the same punch id
\* (checked at the end of a failure-free run whose batch has no repeated id
\* and that started from a calendar without such a pair).
C8_NoPunchTwice ==
    (pc = "done" /\ fired = {} /\ NoDupIds(cur) /\ NoPunchTwice(cal0)) => NoPunchTwice(cal)

(* C9 *)

\* a second call of process_punch_data on the same dataframe, right after the first
SecondCall == process_punch_data(result, store, cal, nextEid, NoFault)

\* C9: a second call of process_punch_data on the same reconciled set creates
\* no more events than there are intervals of the set without an event after
\* the first call, and none when the first call ran to its end.
C9_CalendarIdempotent ==
    Projected =>
        /\ SecondCall.created <= Cardinality(MissingSlots(result, cal))
        /\ pc = "done" => SecondCall.created = 0

C9_Witness ==
    /\ pc = "crashed"
    /\ "insert" \in fired
    /\ created = 1
    /\ SecondCall.created = 1

(* C10 *)

\* C10: after a failure-free run every in-month record of the reconciled set
\* has exactly one calendar event created for it.
C10_OneEventPerRecord ==
    (pc = "done" /\ fired = {}) =>
        \A i \in DOMAIN result :
            InMonth(result[i])
                => Cardinality({e \in cal : e.pid = result[i].id}) = 1

----------------------------------------------------------------------------
(* C11 *)

\* sync_entries ended with an exception in this run
SyncCrashed ==
    pc = "crashed" /\ fired \cap {"get_table", "key_error", "list", "insert", "writeback"} = {}

\* sync_entries has ended in this run, by a return or by an exception
SyncEnded == pc = "synced" \/ SyncCrashed

\* C11: when the fresh batch filtered to the target month is empty,
\* sync_entries leaves the store and the calendar as they were and calls
\* delete_calendar_event for no id; what it returns is the stored set it
\* loaded, which is the set of the stored documents of the month whenever the
\* query of the store did not raise.
C11_EmptyFreshNoOp ==
    (SyncEnded /\ cur = <<>>) =>
        /\ store = store0
        /\ cal = cal0
        /\ dels = <<>>
        /\ result = old
        /\ (pc = "synced" /\ fired = {}) => Punches(result) = Punches(MonthFilter(store0))

C11_Witness ==
    /\ pc = "synced"
    /\ cur = <<>>
    /\ fired = {}
    /\ Len(result) = 2
    /\ cal # {}

(* C12 *)

\* the retraction set of this run: ids stored for the month at the start of the
\* run that have a Rejected row in the fresh batch
Retracted ==
    {id \in IdsOf(MonthFilter(store0)) :
        \E i \in DOMAIN cur : cur[i].id = id /\ cur[i].status = "Rejected"}

\* C12: when sync_entries has ended, every document stored at the start of the
\* run is either still stored with all its fields as they were, or its id is in
\* the retraction set and it is gone; and every document now stored is either
\* one of those, unchanged, or has an id that was not stored before.
C12_MutationDiscipline ==
    SyncEnded =>
        /\ \A k \in DOMAIN store0 :
              \/ \E m \in DOMAIN store : store[m] = store0[k]
              \/ store0[k].id \in Retracted /\ store0[k].id \notin IdsOf(store)
        /\ \A m \in DOMAIN store :
              \/ \E k \in DOMAIN store0 : store0[k] = store[m]
              \/ store[m].id \notin IdsOf(store0)

C12_Witness ==
    /\ pc = "synced"
    /\ fired = {}
    /\ \E k \in DOMAIN store0 : store0[k].id \in Retracted /\ store0[k].id \notin IdsOf(store)
    /\ \E k \in DOMAIN store0 :
          /\ \E m \in DOMAIN store : store[m] = store0[k]
          /\ \E i \in DOMAIN cur :
                cur[i].id = store0[k].id /\ cur[i].slot # store0[k].slot

(* C13 *)

\* what sync_entries does on the same batch, store and calendar without a fault
NoFaultSync == sync_entries(cur, store0, cal0, NoFault)

\* C13: when the calendar delete call raised for an id of the retraction set,
\* sync_entries still returns; delete_calendar_event was called for every id
\* of the retraction set, as often as without the failure (no retry); the
\* calendar keeps at most the one event whose deletion failed; no retracted
\* id is stored; every returned record is stored; and the store and the
\* returned set are those of the run without the failure.
C13_CalendarDeleteNotFatal ==
    (pc # "idle" /\ pc # "scraped" /\ "cal_delete" \in fired) =>
        /\ ~SyncCrashed
        /\ Retracted # {}
        /\ \A id \in Retracted : \E i \in DOMAIN dels : dels[i] = id
        /\ dels = NoFaultSync.dels
        /\ pc = "synced" =>
              /\ \A id \in Retracted : id \notin IdsOf(store)
              /\ IdsOf(result) \subseteq IdsOf(store)
              /\ store = NoFaultSync.store
              /\ result = NoFaultSync.ret
              /\ NoFaultSync.cal \subseteq cal
              /\ Cardinality(cal \ NoFaultSync.cal) <= 1

C13_Witness ==
    /\ pc = "synced"
    /\ "cal_delete" \in fired
    /\ Cardinality(Retracted) = 2
    /\ Cardinality(cal0) = 2
    /\ Cardinality(cal) = 1
    /\ store = <<>>

(* C14 *)

\* the exceptions of reading the stored set and of persisting
StoreFailures ==
    {"read_conn", "read_query", "update_conn", "delete_many", "find_existing", "insert_many"}

\* C14: once reading the stored set or persisting has failed in a run, the run
\* has ended with that failure: sync_entries does not return, main does not go
\* on to process_punch_data, and no calendar event is created in the run.
C14_StoreFailureAborts ==
    fired \cap StoreFailures # {} => (pc = "crashed" /\ created = 0)

(* C15 *)

\* C15: when the calendar list or create call raised for one record during
\* process_punch_data (and nothing else failed in the run), the call still went through every other record of the
\* reconciled set: at most one interval of the set (the one of the failing
\* record) is left without an event.
C15_ProjectionErrorsRecordScoped ==
    (Projected /\ fired # {} /\ fired \subseteq {"list", "insert"})
        => Cardinality(MissingSlots(result, cal)) <= 1

(* C16 *)

\* C16: for a table in which some rows have a date or time that does not
\* parse and some row that is not Open parses, to_dataframe does not raise, and it returns the records of exactly
\* the rows it keeps (those left by the drop of the Open labels) that parse.
C16_ParseFailureIsolated ==
    (/\ output.called
     /\ \E i \in DOMAIN input : ~input[i].parses
     /\ \E i \in DOMAIN input : input[i].parses /\ input[i].status # "Open") =>
        /\ ~output.raised
        /\ output.value = TypedRows(SelectSeq(to_dataframe(input), LAMBDA r : r.parses))

(* C17 *)

\* C17: in a run in which get_table failed for one employee, no stored
\* document is deleted, and the valid records scraped for the other employee
\* are reconciled and projected: at the end of the run each of them is stored
\* and its interval has a calendar event.
C17_ScrapeFailureIsolated ==
    ("get_table" \in fired /\ pc \in {"done", "crashed"}) =>
        /\ \A k \in DOMAIN store0 : store0[k].id \in IdsOf(store)
        /\ \A i \in DOMAIN cur :
              (\A j \in DOMAIN cur : cur[j].id = cur[i].id => Valid(cur[j]))
                  => (cur[i].id \in IdsOf(store) /\ event_exists(cal, cur[i].slot))

(* C18 *)

\* two events of the calendar for one interval
TwoEventsOneInterval == \E e1, e2 \in cal : e1 # e2 /\ e1.slot = e2.slot

\* C18: two runs can leave two calendar events for one punch interval (the
\* witness: both passed event_exists before either created the event), and
\* they do so only when one started while the other was under way.
C18_RaceOnlyWhenOverlapping == TwoEventsOneInterval => overlapped

C18_Witness ==
    /\ \A p \in DOMAIN runs : runs[p].pc = "end"
    /\ \E e1, e2 \in cal : e1 # e2 /\ e1.slot = e2.slot /\ e1.pid = e2.pid
    /\ Len(result) = 1

(* C19 *)

\* C19: when a run has ended, by completion or by an exception, no store
\* client and no browser session that the run opened is still open.
C19_ConnectionsReleased == pc \in {"done", "crashed"} => open = 0

(* C20 *)

\* the duration a formatted value stands for, in seconds
Seconds(t) == t.hours * 3600 + t.minutes * 60 + t.seconds

\* sum of the amounts of the records of input at the positions S
RECURSIVE SumAt(_)
SumAt(S) ==
    IF S = {} THEN 0
    ELSE LET i == CHOOSE x \in S : TRUE IN input[i].amount + SumAt(S \ {i})

\* positions of the records of input that lie in a period of the month
PeriodOf(period) ==
    {i \in DOMAIN input :
        /\ InMonth(input[i])
        /\ period = "first" => ServiceDay(input[i].slot) <= 15
        /\ period = "second" => ServiceDay(input[i].slot) >= 16}

\* C20: for each of the first half, the second half and the month,
\* calculate_hours reports per bucket 331, 320, 310 the sum of the amounts of
\* the records of the period with that service code and as Total Hours the
\* sum of the amounts of all records of the period; and for every key the
\* month value is the first-half value plus the second-half value.
C20_AggregationTotals ==
    output.called =>
        /\ \A period \in {"first", "second", "month"} :
              /\ \A b \in Buckets :
                    Seconds(output.value[period][b])
                        = SumAt({i \in PeriodOf(period) : input[i].code = b})
              /\ Seconds(output.value[period]["Total Hours"]) = SumAt(PeriodOf(period))
              /\ \A b \in DOMAIN output.value[period] :
                    /\ output.value[period][b].minutes \in 0..59
                    /\ output.value[period][b].seconds \in 0..59
        /\ \A b \in Buckets \cup {"Total Hours"} :
              Seconds(output.value.month[b])
                  = Seconds(output.value.first[b]) + Seconds(output.value.second[b])

C20_Witness ==
    /\ output.called
    /\ Len(input) = 2
    /\ ServiceDay(input[1].slot) = 15 /\ input[1].code = "331" /\ input[1].amount = 1800
    /\ ServiceDay(input[2].slot) = 16 /\ input[2].code = "331" /\ input[2].amount = 3540
    /\ output.value.month["331"] = [hours |-> 1, minutes |-> 29, seconds |-> 0]
    /\ output.value.first["Total Hours"] = [hours |-> 0, minutes |-> 30, seconds |-> 0]

(* C21 *)

\* C21: every record of the input whose service date lies in the target month
\* is in exactly one of the two halves get_biweekly_data returns (as often as
\* it is in the input): in the first when its day is at most 15, in the
\* second when its day is at least 16; a record outside the month is in
\* neither half.
C21_BiweeklyPartition ==
    output.called =>
        \A i \in DOMAIN input :
            LET r == input[i]
                n == Count(input, r)
                nf == Count(output.value.first, r)
                ns == Count(output.value.second, r)
            IN IF InMonth(r)
               THEN /\ nf + ns = n
                    /\ ServiceDay(r.slot) <= 15 => nf = n
                    /\ ServiceDay(r.slot) >= 16 => ns = n
               ELSE nf = 0 /\ ns = 0

C21_Witness ==
    /\ output.called
    /\ Len(input) = 2
    /\ ServiceDay(input[1].slot) = 16 /\ InMonth(input[1])
    /\ ServiceDay(input[2].slot) = 15 /\ InMonth(input[2])
    /\ output.value.first = <<input[2]>>
    /\ output.value.second = <<input[1]>>

(* C26 *)

\* C26: for every non-negative duration, of 24 hours and more as well,
\* format_hhmmss gives H:M:S with 0 <= M < 60, 0 <= S < 60 and
\* H*3600 + M*60 + S equal to the duration in seconds with the fraction of a
\* second cut off: a whole-second duration is rendered without loss and a
\* fraction never rounds up.
C26_FormatLossless ==
    output.called =>
        LET t == output.value
            ticks == t.hours * 3600 * TicksPerSecond + t.minutes * 60 * TicksPerSecond
                     + t.seconds * TicksPerSecond
        IN /\ t.hours >= 0
           /\ t.minutes \in 0..59
           /\ t.seconds \in 0..59
           /\ ticks <= input
           /\ input < ticks + TicksPerSecond

C26_Witness ==
    /\ output.called
    /\ input = (24 * 3600 + 59 * 60 + 59) * TicksPerSecond + (TicksPerSecond - 1)
    /\ output.value = [hours |-> 24, minutes |-> 59, seconds |-> 59]

(* C25 *)

\* C25: when delete_calendar_event is called for an entry whose stored record
\* names no calendar event (no google_event_id field, NaN in it, or no
\* record), no delete request is sent to the calendar.
C25_NoRequestWithoutEventId ==
    (pc = "synced" /\ fired = {}) =>
        \A k \in DOMAIN dels :
            get_google_event_id(store0, dels[k]) \notin 1..MaxEid
                => DeleteRejected(<<dels[k]>>, store0, cal0, NoFault).reqs = <<>>

(* C27 *)

\* C27: whatever the batches (repeated ids included) and whichever steps
\* fail, every stored record has a status other than Open, Unvalidated and
\* Rejected, and no two stored records share an id.
C27_StoreInvariant ==
    /\ \A i \in DOMAIN store : Valid(store[i])
    /\ NoDupIds(store)

C27_Witness ==
    /\ pc = "synced"
    /\ "dup_key" \in fired
    /\ store0 # <<>>
    /\ Len(store) > Len(store0)

(* C28 *)

\* C28 as stated: after a failure-free sync_entries the ids it returns are
\* the ids the store holds for the target month.
C28_ReturnedIsStored ==
    (pc = "synced" /\ fired = {}) => IdsOf(result) = IdsOf(MonthFilter(store))

\* ids the fresh batch shows as Unvalidated in the target month
FreshUnvalidated ==
    {cur[i].id : i \in {j \in DOMAIN cur : cur[j].status = "Unvalidated" /\ InMonth(cur[j])}}

\* C28 amended: after a failure-free sync_entries the ids it returns are the
\* ids the store holds for the target month except those the fresh batch
\* shows as Unvalidated: a stored punch that the fresh batch shows as
\* Unvalidated stays in the store and is not returned.
C28_ReturnedIsStoredButUnvalidated ==
    (pc = "synced" /\ fired = {}) =>
        IdsOf(result) = IdsOf(MonthFilter(store)) \ FreshUnvalidated

C28_Witness ==
    /\ pc = "synced"
    /\ fired = {}
    /\ result # <<>>
    /\ IdsOf(result) # IdsOf(store0)
    /\ \E id \in FreshUnvalidated : id \in IdsOf(store) \ IdsOf(result)

(* C24 *)

\* C24: delete_calendar_event is called for every id of the retraction set
\* while the record is still stored: a record leaves the store in a run only
\* after the lookup of its event id, and after a failure-free sync_entries
\* every id of the retraction set has left the store and the event that its
\* stored record named has left the calendar.
C24_RetractionOrder ==
    /\ \A id \in IdsOf(store0) \ IdsOf(store) : \E k \in DOMAIN dels : dels[k] = id
    /\ (pc = "synced" /\ fired = {}) =>
          LET R == RejectedIds(MonthFilter(cur), old)
          IN /\ dels = R
             /\ \A k \in DOMAIN R :
                   LET g == get_google_event_id(store0, R[k])
                   IN /\ R[k] \in IdsOf(store0)
                      /\ R[k] \notin IdsOf(store)
                      /\ g \in 1..MaxEid => \A e \in cal : e.eid # g

C24_Witness ==
    /\ pc = "synced"
    /\ fired = {}
    /\ Len(dels) = 2
    /\ \A k \in DOMAIN dels :
          /\ \E e \in cal0 : e.eid = get_google_event_id(store0, dels[k])
          /\ \A e \in cal : e.eid # get_google_event_id(store0, dels[k])
          /\ dels[k] \notin IdsOf(store)

(* C22 *)

\* process_punch_data(result) after its first k iterations without a fault
ProjectedUpTo(k) ==
    process_punch_data(SubSeq(get_month_data(result), 1, k), store, cal, nextEid, NoFault)

\* C22: in every iteration of process_punch_data that creates an event, the
\* stored record with the id of the row gets the id of the created event as
\* its google_event_id, no other field of it and no other stored record
\* changes, and no record is added or removed; in a failure-free run that
\* record exists.  An iteration that skips the row because its interval has
\* an event leaves the store as it is.
C22_EventIdWriteBack ==
    (pc = "synced" /\ ~NoColumns) =>
        \A k \in DOMAIN get_month_data(result) :
            LET row == get_month_data(result)[k]
                s == ProjectedUpTo(k - 1)
                t == ProjectRow(s, row, k, NoFault)
            IN IF t.cal # s.cal
               THEN /\ \E e \in t.cal \ s.cal :
                          /\ t.cal = s.cal \cup {e}
                          /\ e.pid = row.id
                          /\ DOMAIN t.store = DOMAIN s.store
                          /\ \A m \in DOMAIN s.store :
                                t.store[m] = IF s.store[m].id = row.id
                                             THEN [s.store[m] EXCEPT !.gid = e.eid]
                                             ELSE s.store[m]
                    /\ fired = {} => row.id \in IdsOf(s.store)
               ELSE t.store = s.store

C22_Witness ==
    /\ pc = "done"
    /\ fired = {}
    /\ created = 1
    /\ Len(store) = 2
    /\ Len(get_month_data(result)) = 2
    /\ \E m, n \in DOMAIN store :
          /\ store[m].gid = nextEid - 1
          /\ \E e \in cal \ cal0 : e.eid = store[m].gid /\ e.pid = store[m].id
          /\ store[n].id # store[m].id
          /\ store[n].gid \in 1..MaxEid
          /\ \E e \in cal0 : e.eid = store[n].gid
          /\ get_google_event_id(store0, store[n].id) = store[n].gid

(* C23 *)

\* C23: within one run the calendar projection happens before any
\* notification is sent (the stages run in the order scrape, normalize,
\* reconcile, persist, project, aggregate/report, notify); looked at in the
\* runs whose projection creates an event.
C23_ProjectionBeforeNotification ==
    created > 0 =>
        \A i, j \in DOMAIN stages :
            (stages[i] = "project" /\ stages[j] = "notify") => i < j

=============================================================================
